---- MODULE Spec2Model ----
(***************************************************************************)
(* Model of week-2/02-nodejs/todoServer.js: an express application whose   *)
(* five routes keep a list of todo records in the file todos.json.         *)
(*                                                                         *)
(* JavaScript values are written as strings holding the value's source     *)
(* text ("undefined", "null", "false", "true", "0", "'yes'", ...), so that *)
(* values of different JavaScript types can be compared.  An object is a   *)
(* function from its own property names to values.                         *)
(*                                                                         *)
(* Every handler of the source is synchronous (readFileSync and            *)
(* writeFileSync), so within one node process a handler is one atomic      *)
(* step.                                                                   *)
(***************************************************************************)
EXTENDS Naturals, Sequences, FiniteSets

\* Number of POST /todos requests (uuidV4 calls) a behaviour may make.
MaxCreates == 2

\* ------------------------------------------------------------------------
\* JavaScript values

Undefined == "undefined"

\* The values for which ToBoolean yields false.
Falsy == {"undefined", "null", "false", "0", "''"}

\* a || b
Or(a, b) == IF a \in Falsy THEN b ELSE a

\* o.k : reading a property an object does not have yields undefined.
Prop(o, k) == IF k \in DOMAIN o THEN o[k] ELSE Undefined

\* o.k = v : the object with property k set (added when absent).
SetProp(o, k, v) == [x \in DOMAIN o \cup {k} |-> IF x = k THEN v ELSE o[x]]

\* The numbers that are not finite.  JSON.parse yields one for a literal
\* beyond the range of a double (1e400, -1e400), so a request body can hold
\* one; it is truthy.
NonFinite == {"Infinity", "-Infinity"}

\* JSON.stringify of a property value followed by JSON.parse: a number that
\* is not finite is written null; strings, booleans, null and finite
\* numbers are read back as they were.
Stringify(v) == IF v \in NonFinite THEN "null" ELSE v

\* JSON.stringify of an object followed by JSON.parse: a property whose
\* value is undefined is not written, so the object read back lacks it.
JsonObject(o) == [k \in {x \in DOMAIN o : o[x] # Undefined} |-> Stringify(o[k])]

\* JSON.parse(JSON.stringify(list)) of an array of objects.
JsonArray(list) == [i \in 1..Len(list) |-> JsonObject(list[i])]

\* ------------------------------------------------------------------------
\* Inputs

\* Tokens uuidV4 can return: 36 characters, as the uuid package writes a
\* version 4 UUID.
UuidNames ==
  <<"11111111-1111-4111-8111-111111111111", "22222222-2222-4222-8222-222222222222",
    "33333333-3333-4333-8333-333333333333", "44444444-4444-4444-8444-444444444444">>
Uuids == {UuidNames[i] : i \in 1..MaxCreates}

\* Path parameter :id of a request: an issued token or a foreign string.
PathIds == Uuids \cup {"123"}

\* req.body after express.json(): the properties the handlers read, and id,
\* which a client may send and no handler reads.  A property the client
\* omitted reads as undefined.  The bodies tried are one naming a title and
\* a description with every kind of completed: omitted, false, falsy, true,
\* truthy but no boolean, and a number that is not finite; the empty object
\* and one naming completed alone; and two that also carry the id of a
\* record.
Completeds == {Undefined, "false", "0", "true", "'yes'", "Infinity"}
Bodies ==
  {[id |-> Undefined, title |-> "'t1'", description |-> "'d1'", completed |-> c]
     : c \in Completeds}
  \cup {[id |-> i, title |-> t, description |-> t, completed |-> c]
     : <<i, t, c>> \in {<<Undefined, Undefined, Undefined>>, <<Undefined, Undefined, "true">>}}
  \cup {[id |-> UuidNames[1], title |-> "'t1'", description |-> "'d1'", completed |-> c]
     : c \in {Undefined, "true"}}

NoBody ==
  [id |-> Undefined, title |-> Undefined, description |-> Undefined, completed |-> Undefined]

\* ------------------------------------------------------------------------
\* The backing file todos.json

MissingFile == [kind |-> "missing", todos |-> <<>>]
\* Content JSON.parse rejects (an empty or truncated file, free text).
UnparseableFile == [kind |-> "unparseable", todos |-> <<>>]
\* Content JSON.parse accepts that is no array: the JSON object {}.
ObjectFile == [kind |-> "object", todos |-> <<>>]
ArrayFile(list) == [kind |-> "array", todos |-> list]

VARIABLES
  file,     \* content of todos.json
  req,      \* the request handled last
  res,      \* the response sent last
  saved,    \* saveTodoToFile in the last request: "none", "ok" or "failed"
  issued,   \* tokens uuidV4 has returned so far
  created,  \* ids answered by a 201
  deleted,  \* ids whose DELETE answered 200
  lastCreate, \* id and body of the last 201, until the next POST, PUT or DELETE
  handlers  \* per handler in flight: what it holds between its load and its save

vars == <<file, req, res, saved, issued, created, deleted, lastCreate, handlers>>

\* ------------------------------------------------------------------------
\* Requests and responses

NoId == "-"
Request(route, id, body) == [route |-> route, id |-> id, body |-> body]

\* res.status(s).json({ message: m })
MessageBody(m) == [type |-> "message", message |-> m]
\* res.json(todo): the object as JSON.stringify writes it.
TodoBody(o) == [type |-> "todo", todo |-> JsonObject(o)]
\* res.json(todos) of an array.
ArrayBody(list) == [type |-> "array", todos |-> JsonArray(list)]
\* res.json(todos) of the object {}.
ObjectBody == [type |-> "object"]
\* res.json({ id: newTodo.id })
IdBody(id) == [type |-> "id", id |-> id]
\* res.send() without argument.
EmptyBody == [type |-> "empty"]

Response(status, body) == [status |-> status, body |-> body]

\* A TypeError thrown inside a handler reaches express's default error
\* handler, which answers 500 with the error's stack.
Uncaught == Response(500, [type |-> "TypeError"])

NotFound == Response(404, MessageBody("Todo not found"))
SaveFailed == Response(500, MessageBody("Failed to save todo"))

\* The handlers that can be in flight together, and what one holds when it
\* is not: req is its request, todos the list it will save, answer what it
\* has to send, outcome how its save ended, seen what it loaded from
\* todos.json; inside fs.readFileSync size is the size the fstat gave and
\* got what the reads have returned.
\* pc is "idle", "reading" (inside fs.readFileSync: opened, not yet read to
\* the end), "loaded" (the list is loaded and changed, not yet saved),
\* "opened" (inside fs.writeFileSync: the open has returned, nothing is
\* written yet), "part" (a write has landed a part of the text) or
\* "answering" (the file operations are over, the answer is not yet sent).
Procs == {"h1", "h2"}
Idle ==
  [pc |-> "idle", req |-> Request("-", NoId, NoBody), todos |-> <<>>,
   answer |-> Response(0, EmptyBody), outcome |-> "none", seen |-> MissingFile,
   size |-> 0, got |-> ""]

\* ------------------------------------------------------------------------
\* The store

\* What JSON.parse(data) is, as a JavaScript value.
ArrayValue(list) == [kind |-> "array", todos |-> list]
ObjectValue == [kind |-> "object", todos |-> <<>>]

\* getTodosFromFile: readFileSync throws for a missing file and JSON.parse
\* for unparseable content; the catch returns [].  Whatever JSON.parse
\* accepts is returned as it is.
getTodosFromFile(f) ==
  CASE f.kind \in {"missing", "unparseable"} -> ArrayValue(<<>>)
    [] f.kind = "object" -> ObjectValue
    [] f.kind = "array" -> ArrayValue(f.todos)

\* How fs.writeFileSync('todos.json', text) can end.  It opens the file
\* with O_TRUNC and then writes the text:
\*   "written"    it returns: the file holds the whole text;
\*   "refused"    the open throws (EACCES, EROFS, EISDIR): the file is
\*                untouched;
\*   "truncated"  the open has emptied the file and a write throws (EFBIG,
\*                ENOSPC, EIO): the file holds a proper prefix of the text,
\*                possibly nothing.
WriteOutcomes == {"written", "refused", "truncated"}

\* saveTodoToFile(todos), where write is how fs.writeFileSync ends.  The
\* text is JSON.stringify(todos), which starts with [ and ends with ], so
\* no proper prefix of it is content JSON.parse accepts.  The value returned
\* to the handler is true for "written" and false otherwise.
saveTodoToFile(todos, write) ==
  /\ file' = CASE write = "written" -> ArrayFile(JsonArray(todos))
               [] write = "refused" -> file
               [] write = "truncated" -> UnparseableFile
  /\ saved' = IF write = "written" THEN "ok" ELSE "failed"

\* A search by findIndex whose -1 is then used as an index from the end:
\* the last element stands for a record that was not found.
Find_orLast(list, id) ==
  LET hits == {i \in 1..Len(list) : Prop(list[i], "id") = id}
  IN IF hits = {} THEN Len(list) ELSE CHOOSE i \in hits : \A j \in hits : i <= j

\* A search that never looks at the first element.
Find_skipsFirst(list, id) ==
  LET hits == {i \in 2..Len(list) : Prop(list[i], "id") = id}
  IN IF hits = {} THEN 0 ELSE CHOOSE i \in hits : \A j \in hits : i <= j

\* todos.find(t => t.id === id), as the index of the element found, 0 when
\* find returns undefined.
Find(list, id) ==
  LET hits == {i \in 1..Len(list) : Prop(list[i], "id") = id}
  IN IF hits = {} THEN 0 ELSE CHOOSE i \in hits : \A j \in hits : i <= j

\* todos.unshift(t): the new element goes first.
Push_front(list, t) == <<t>> \o list

\* todos.push(t)
Push(list, t) == Append(list, t)

\* splice removing the last element whatever the index: todos.splice(-1, 1).
Splice_last(list, i) == SubSeq(list, 1, Len(list) - 1)

\* todos.splice(i, 1), i counted from 1.
Splice(list, i) == [j \in 1..(Len(list) - 1) |-> IF j < i THEN list[j] ELSE list[j + 1]]

\* uuidV4(): a token it has not returned before.  Tokens are interchangeable,
\* so the n-th call is given the n-th name.
uuidV4 == UuidNames[Cardinality(issued) + 1]

\* ------------------------------------------------------------------------
\* Handlers.  Each loads the list, and the three that change it save it.

NoCreate == [id |-> NoId, body |-> NoBody]

\* What app.get('/todos') answers when todos.json holds f.
GetTodosResponse(f) ==
  LET todos == getTodosFromFile(f) IN
  Response(200, IF todos.kind = "array" THEN ArrayBody(todos.todos) ELSE ObjectBody)

\* A GET /todos that writes [] when there is no list to read.
GetTodos_repairs ==
  /\ req' = Request("GET /todos", NoId, NoBody)
  /\ res' = GetTodosResponse(file)
  /\ saved' = "none"
  /\ file' = IF file.kind = "array" THEN file ELSE ArrayFile(<<>>)
  /\ UNCHANGED <<issued, created, deleted, lastCreate, handlers>>

\* app.get('/todos')
GetTodos ==
  /\ req' = Request("GET /todos", NoId, NoBody)
  /\ res' = GetTodosResponse(file)
  /\ saved' = "none"
  /\ UNCHANGED <<file, issued, created, deleted, lastCreate, handlers>>

\* app.get('/todos/:id'): todos.find is not a function unless todos is an
\* array.
GetTodoById(id) ==
  LET todos == getTodosFromFile(file)
      i == Find(todos.todos, id)
  IN
  /\ req' = Request("GET /todos/:id", id, NoBody)
  /\ res' = IF todos.kind # "array" THEN Uncaught
            ELSE IF i = 0 THEN NotFound
            ELSE Response(200, TodoBody(todos.todos[i]))
  /\ saved' = "none"
  /\ UNCHANGED <<file, issued, created, deleted, lastCreate, handlers>>

\* NewTodo with the id of the documentation's example instead of a token.
NewTodo_fixedId(id, body) ==
  [id |-> UuidNames[1],
   title |-> body.title,
   description |-> body.description,
   completed |-> Or(body.completed, "false")]

\* NewTodo without the description property.
NewTodo_noDescription(id, body) ==
  [id |-> id,
   title |-> body.title,
   description |-> Undefined,
   completed |-> Or(body.completed, "false")]

\* The object literal of app.post('/todos'), lines 64-69.
NewTodo(id, body) ==
  [id |-> id,
   title |-> body.title,
   description |-> body.description,
   completed |-> Or(body.completed, "false")]

\* app.post('/todos'): uuidV4() is called before the list is loaded.  todos.push is not
\* a function unless todos is an array.
PostTodos(body, write) ==
  LET newTodo == NewTodo(uuidV4, body)
      todos == getTodosFromFile(file)
  IN
  /\ Cardinality(issued) < MaxCreates
  /\ issued' = issued \cup {newTodo.id}
  /\ req' = Request("POST /todos", NoId, body)
  /\ IF todos.kind # "array"
       THEN /\ res' = Uncaught
            /\ saved' = "none"
            /\ UNCHANGED <<file, created>>
       ELSE /\ saveTodoToFile(Push(todos.todos, newTodo), write)
            /\ res' = IF write = "written" THEN Response(201, IdBody(newTodo.id)) ELSE SaveFailed
            /\ created' = IF write = "written" THEN created \cup {newTodo.id} ELSE created
  /\ lastCreate' = IF res'.status = 201 THEN [id |-> newTodo.id, body |-> body]
                                        ELSE NoCreate
  /\ UNCHANGED <<deleted, handlers>>

\* The three assignments of app.put('/todos/:id'), lines 95-97.
Assign(todo, body) ==
  SetProp(SetProp(SetProp(todo, "title", body.title),
                  "description", body.description),
          "completed", Or(body.completed, "false"))

\* An update that removes the record and appends its replacement.
PutTodo_reappend(id, body, write) ==
  LET todos == getTodosFromFile(file)
      i == Find(todos.todos, id)
      todo == Assign(todos.todos[i], body)
  IN
  /\ req' = Request("PUT /todos/:id", id, body)
  /\ IF i = 0
       THEN /\ res' = NotFound
            /\ saved' = "none"
            /\ UNCHANGED file
       ELSE /\ saveTodoToFile(Push(Splice(todos.todos, i), todo), write)
            /\ res' = IF write = "written" THEN Response(200, TodoBody(todo)) ELSE SaveFailed
  /\ lastCreate' = NoCreate
  /\ UNCHANGED <<issued, created, deleted, handlers>>

\* app.put('/todos/:id')
PutTodo(id, body, write) ==
  LET todos == getTodosFromFile(file)
      i == Find(todos.todos, id)
      todo == Assign(todos.todos[i], body)
  IN
  /\ req' = Request("PUT /todos/:id", id, body)
  /\ IF todos.kind # "array"
       THEN /\ res' = Uncaught
            /\ saved' = "none"
            /\ UNCHANGED file
       ELSE IF i = 0
       THEN /\ res' = NotFound
            /\ saved' = "none"
            /\ UNCHANGED file
       ELSE /\ saveTodoToFile([todos.todos EXCEPT ![i] = todo], write)
            /\ res' = IF write = "written" THEN Response(200, TodoBody(todo)) ELSE SaveFailed
  /\ lastCreate' = NoCreate
  /\ UNCHANGED <<issued, created, deleted, handlers>>

\* app.delete('/todos/:id'): todos.indexOf(todo) is the index find stopped
\* at.
DeleteTodo(id, write) ==
  LET todos == getTodosFromFile(file)
      i == Find(todos.todos, id)
  IN
  /\ req' = Request("DELETE /todos/:id", id, NoBody)
  /\ IF todos.kind # "array"
       THEN /\ res' = Uncaught
            /\ saved' = "none"
            /\ UNCHANGED <<file, deleted>>
       ELSE IF i = 0
       THEN /\ res' = NotFound
            /\ saved' = "none"
            /\ UNCHANGED <<file, deleted>>
       ELSE /\ saveTodoToFile(Splice(todos.todos, i), write)
            /\ res' = IF write = "written" THEN Response(200, MessageBody("Todo deleted"))
                                 ELSE SaveFailed
            /\ deleted' = IF write = "written" THEN deleted \cup {id} ELSE deleted
  /\ lastCreate' = NoCreate
  /\ UNCHANGED <<issued, created, handlers>>

\* app.all("**"), lines 132-134: what the handler answers to a request
\* that reaches it.
OtherRoute ==
  /\ req' = Request("ALL **", NoId, NoBody)
  /\ res' = Response(404, EmptyBody)
  /\ saved' = "none"
  /\ UNCHANGED <<file, issued, created, deleted, lastCreate, handlers>>

\* The process exits and is started again (lines 1-6 and 137-140): nothing
\* at start-up reads or writes todos.json, and no list is kept in memory
\* between requests.
Restart ==
  /\ req' = Request("restart", NoId, NoBody)
  /\ res' = Response(0, EmptyBody)
  /\ saved' = "none"
  /\ UNCHANGED <<file, issued, created, deleted, lastCreate, handlers>>

\* ------------------------------------------------------------------------
\* Specifications

InitRest ==
  /\ req = Request("restart", NoId, NoBody)
  /\ res = Response(0, EmptyBody)
  /\ saved = "none"
  /\ issued = {}
  /\ created = {}
  /\ deleted = {}
  /\ lastCreate = NoCreate
  /\ handlers = [p \in Procs |-> Idle]

\* First start: todos.json does not exist yet, or holds [].
Init ==
  /\ file \in {MissingFile, ArrayFile(<<>>)}
  /\ InitRest

\* Start over a todos.json with any content, foreign content included.
InitAnyFile ==
  /\ file \in {MissingFile, UnparseableFile, ObjectFile, ArrayFile(<<>>)}
  /\ InitRest

Next ==
  \/ GetTodos
  \/ \E id \in PathIds : GetTodoById(id)
  \/ \E body \in Bodies, write \in WriteOutcomes : PostTodos(body, write)
  \/ \E id \in PathIds, body \in Bodies, write \in WriteOutcomes : PutTodo(id, body, write)
  \/ \E id \in PathIds, write \in WriteOutcomes : DeleteTodo(id, write)
  \/ OtherRoute
  \/ Restart

Spec == Init /\ [][Next]_vars

SpecAnyFile == InitAnyFile /\ [][Next]_vars

\* ------------------------------------------------------------------------
\* The handlers step by step, in one process.  A handler that changes the
\* list touches todos.json twice, in getTodosFromFile and in
\* saveTodoToFile; everything between the two is computation on the list
\* it loaded.  A handler that answers without saving (a GET, a 404, a
\* TypeError) is one step.

\* The handler p answers at once, without a save.
AnswerNow(p, request, response) ==
  /\ req' = request
  /\ res' = response
  /\ saved' = "none"
  /\ UNCHANGED <<file, created, deleted, handlers>>

\* The handler p has loaded the list and goes on to save todos.
AwaitSave(p, request, todos, answer) ==
  /\ handlers' = [handlers EXCEPT ![p] =
       [Idle EXCEPT !.pc = "loaded", !.req = request, !.todos = todos,
                    !.answer = answer, !.seen = file]]
  /\ UNCHANGED <<file, req, res, saved, created, deleted>>

\* app.post('/todos') up to todos.push(newTodo), lines 64-72.
PostLoad(p, body) ==
  LET newTodo == NewTodo(uuidV4, body)
      todos == getTodosFromFile(file)
      request == Request("POST /todos", NoId, body)
  IN
  /\ handlers[p].pc = "idle"
  /\ Cardinality(issued) < MaxCreates
  /\ issued' = issued \cup {newTodo.id}
  /\ lastCreate' = NoCreate
  /\ IF todos.kind # "array"
       THEN AnswerNow(p, request, Uncaught)
       ELSE AwaitSave(p, request, Push(todos.todos, newTodo),
                      Response(201, IdBody(newTodo.id)))

\* app.put('/todos/:id') up to the assignments, lines 90-97.
PutLoad(p, id, body) ==
  LET todos == getTodosFromFile(file)
      i == Find(todos.todos, id)
      todo == Assign(todos.todos[i], body)
      request == Request("PUT /todos/:id", id, body)
  IN
  /\ handlers[p].pc = "idle"
  /\ lastCreate' = NoCreate
  /\ UNCHANGED issued
  /\ IF todos.kind # "array" THEN AnswerNow(p, request, Uncaught)
     ELSE IF i = 0 THEN AnswerNow(p, request, NotFound)
     ELSE AwaitSave(p, request, [todos.todos EXCEPT ![i] = todo],
                    Response(200, TodoBody(todo)))

\* app.delete('/todos/:id') up to the splice, lines 114-119.
DeleteLoad(p, id) ==
  LET todos == getTodosFromFile(file)
      i == Find(todos.todos, id)
      request == Request("DELETE /todos/:id", id, NoBody)
  IN
  /\ handlers[p].pc = "idle"
  /\ lastCreate' = NoCreate
  /\ UNCHANGED issued
  /\ IF todos.kind # "array" THEN AnswerNow(p, request, Uncaught)
     ELSE IF i = 0 THEN AnswerNow(p, request, NotFound)
     ELSE AwaitSave(p, request, Splice(todos.todos, i),
                    Response(200, MessageBody("Todo deleted")))

\* The rest of the three handlers: saveTodoToFile(todos) and the answer,
\* lines 74-78, 99-103 and 121-125, in a process that is alone on
\* todos.json: nothing reads or writes the file between the open and the
\* close of fs.writeFileSync, so the save is one step.
HandlerSave(p, write) ==
  LET h == handlers[p] IN
  /\ h.pc = "loaded"
  /\ saveTodoToFile(h.todos, write)
  /\ req' = h.req
  /\ res' = IF write = "written" THEN h.answer ELSE SaveFailed
  /\ created' = IF write = "written" /\ h.req.route = "POST /todos"
                  THEN created \cup {h.answer.body.id} ELSE created
  /\ deleted' = IF write = "written" /\ h.req.route = "DELETE /todos/:id"
                  THEN deleted \cup {h.req.id} ELSE deleted
  /\ lastCreate' = IF res'.status = 201
                     THEN [id |-> h.answer.body.id, body |-> h.req.body]
                     ELSE NoCreate
  /\ handlers' = [handlers EXCEPT ![p] = Idle]
  /\ UNCHANGED issued

\* Within one node process a handler runs to completion: readFileSync and
\* writeFileSync block the only thread, so no handler starts while another
\* is between its load and its save.
RunsToCompletion(p) == \A q \in Procs \ {p} : handlers[q].pc = "idle"

\* The bodies of the requests whose load and save are separate steps: one
\* body, naming a title and a description.  Every record stored has the
\* same properties and values but for its id, so the text of a record has
\* one length and the texts of two lists differ in the characters of the
\* ids, in where they end, and in nothing else.
ConcurrentCreates == {b \in Bodies : b.id = Undefined /\ b.title # Undefined /\ b.completed = Undefined}
ConcurrentUpdates == ConcurrentCreates

\* One node process: requests arrive in any order and any number may be
\* waiting, and the event loop runs one handler at a time.
NextOneProcess ==
  \/ \E p \in Procs : RunsToCompletion(p) /\ handlers[p].pc = "idle" /\ GetTodos
  \/ \E p \in Procs, body \in ConcurrentCreates : RunsToCompletion(p) /\ PostLoad(p, body)
  \/ \E p \in Procs, id \in Uuids, body \in ConcurrentUpdates :
       RunsToCompletion(p) /\ PutLoad(p, id, body)
  \/ \E p \in Procs, id \in Uuids : RunsToCompletion(p) /\ DeleteLoad(p, id)
  \/ \E p \in Procs, write \in WriteOutcomes : HandlerSave(p, write)

SpecOneProcess == Init /\ [][NextOneProcess]_vars

\* ------------------------------------------------------------------------
\* The text of todos.json.  fs.writeFileSync is open(O_TRUNC), write,
\* close and fs.readFileSync is open, fstat, read, close: another process
\* on the same todos.json runs between them.  A write lands at offset 0 of
\* whatever the file holds by then and a read returns what it holds by
\* then, so what is stored and what is loaded depend on the characters of
\* the texts, and todos.json is modelled with its text.

\* JSON.stringify of the value of property k: a string in double quotes
\* (an id is a string, the other strings are written 't1' here), anything
\* else as Stringify leaves it.
ValueText(k, v) ==
  IF k = "id" THEN "\"" \o v \o "\""
  ELSE IF SubSeq(v, 1, 1) = "'" THEN "\"" \o SubSeq(v, 2, Len(v) - 1) \o "\""
  ELSE Stringify(v)

\* a and b with a comma between, when neither is empty.
Join(a, b) == IF a = "" THEN b ELSE IF b = "" THEN a ELSE a \o "," \o b

\* JSON.stringify of a record: its properties in the order in which the
\* object literal of lines 64-69 and JSON.parse create them, those that are
\* undefined left out.
ObjectText(o) ==
  LET obj == JsonObject(o)
      part(k) == IF k \in DOMAIN obj THEN "\"" \o k \o "\":" \o ValueText(k, obj[k])
                                      ELSE ""
  IN "{" \o Join(Join(Join(part("id"), part("title")), part("description")),
                 part("completed")) \o "}"

RECURSIVE ObjectsText(_)
ObjectsText(list) ==
  IF list = <<>> THEN "" ELSE Join(ObjectText(Head(list)), ObjectsText(Tail(list)))

\* JSON.stringify(todos), the text saveTodoToFile hands to fs.writeFileSync.
Text(list) == "[" \o ObjectsText(list) \o "]"

\* The record a concurrent create with the token id stores.
StoredRecord(id) == JsonObject(NewTodo(id, CHOOSE b \in ConcurrentCreates : TRUE))

\* Characters a record takes in the text of a list, with the [ or , before
\* it.
RecordWidth == Len(ObjectText(StoredRecord(UuidNames[1]))) + 1

\* JSON.parse(text) for the texts todos.json can hold here, which are made
\* of characters of texts of lists of such records, each character where
\* that text had it.  The only list text can be the text of has as many
\* records as the length of text gives, with the ids found where a list of
\* that length has its ids; JSON.parse returns that list when text is its
\* text and throws a SyntaxError when it is not: then text is empty, or ends
\* inside a record, or has characters after the ] that closes the array.
JsonParse(text) ==
  LET n == IF Len(text) < 2 THEN 0 ELSE (Len(text) - 1) \div RecordWidth
      idAt(i) == SubSeq(text, (i - 1) * RecordWidth + 9, (i - 1) * RecordWidth + 44)
      list == [i \in 1..n |-> StoredRecord(idAt(i))]
  IN IF Text(list) = text THEN ArrayValue(list)
                          ELSE [kind |-> "unparseable", todos |-> <<>>]

\* todos.json holding text: kind and todos are what JSON.parse makes of it.
TextFile(text) ==
  [kind |-> JsonParse(text).kind, todos |-> JsonParse(text).todos, text |-> text]

\* What todos.json holds after the first k characters of text were written
\* at offset 0 over content: those characters, and behind them what content
\* had there.
WrittenOver(content, text, k) ==
  SubSeq(text, 1, k)
    \o (IF k < Len(content) THEN SubSeq(content, k + 1, Len(content)) ELSE "")

\* ------------------------------------------------------------------------
\* Two processes on one todos.json.  Nothing orders the file operations and
\* the answers of one process against those of the other, so each system
\* call of fs.readFileSync and fs.writeFileSync is a step of its own and so
\* is the answer: the other process runs between any two of them.

\* What the handler h does with the list it got from getTodosFromFile, f
\* being what readFileSync read: the POST pushes its record (line 72), the
\* DELETE looks for the id and splices the record out or has 404 to answer
\* (lines 114-119).
AfterLoad(h, f) ==
  LET todos == getTodosFromFile(f).todos
      i == Find(todos, h.req.id)
      loaded == [h EXCEPT !.seen = f, !.size = 0, !.got = ""]
  IN IF h.req.route = "POST /todos"
       THEN [loaded EXCEPT !.pc = "loaded",
                           !.todos = Push(todos, NewTodo(h.answer.body.id, h.req.body))]
     ELSE IF i = 0
       THEN [loaded EXCEPT !.pc = "answering", !.answer = NotFound]
     ELSE [loaded EXCEPT !.pc = "loaded", !.todos = Splice(todos, i),
                         !.answer = Response(200, MessageBody("Todo deleted"))]

\* fs.readFileSync('todos.json'), line 20, the open and the fstat: the open
\* throws ENOENT when the file does not exist and the catch of lines 22-25
\* returns []; otherwise the size of the file at this moment is how many
\* bytes the reads that follow ask for.
ReadOpen(h) ==
  IF file.kind = "missing" THEN AfterLoad(h, MissingFile)
  ELSE [h EXCEPT !.pc = "reading", !.size = Len(file.text), !.got = ""]

\* app.post('/todos') from the request to the open of todos.json for
\* reading: the object literal of lines 64-69 calls uuidV4(), then line 71
\* calls getTodosFromFile.
PostBegin(p, body) ==
  LET h == [Idle EXCEPT !.req = Request("POST /todos", NoId, body),
                        !.answer = Response(201, IdBody(uuidV4))]
  IN
  /\ handlers[p].pc = "idle"
  /\ Cardinality(issued) < MaxCreates
  /\ issued' = issued \cup {uuidV4}
  /\ lastCreate' = NoCreate
  /\ handlers' = [handlers EXCEPT ![p] = ReadOpen(h)]
  /\ UNCHANGED <<file, req, res, saved, created, deleted>>

\* app.delete('/todos/:id') from the request to the open of todos.json for
\* reading, line 114.
DeleteBegin(p, id) ==
  LET h == [Idle EXCEPT !.req = Request("DELETE /todos/:id", id, NoBody)] IN
  /\ handlers[p].pc = "idle"
  /\ lastCreate' = NoCreate
  /\ handlers' = [handlers EXCEPT ![p] = ReadOpen(h)]
  /\ UNCHANGED <<file, req, res, saved, issued, created, deleted>>

\* fs.readFileSync, one read.  It returns what todos.json holds now from
\* where the last read ended, up to the size the fstat gave (when that size
\* was 0, up to the end of the file).  readFileSync reads again until it has
\* that many bytes or a read returns nothing; then JSON.parse (line 21) gets
\* what the reads returned, which no moment of the file need have held, and
\* the handler goes on with the list or, after a SyntaxError, with [].
HandlerRead(p) ==
  LET h == handlers[p]
      pos == Len(h.got)
      end == IF h.size = 0 \/ Len(file.text) < h.size THEN Len(file.text) ELSE h.size
      bytes == IF pos < end THEN SubSeq(file.text, pos + 1, end) ELSE ""
      got == h.got \o bytes
  IN
  /\ h.pc = "reading"
  /\ handlers' = [handlers EXCEPT ![p] =
       IF bytes = "" \/ (h.size > 0 /\ Len(got) = h.size)
         THEN AfterLoad(h, TextFile(got))
         ELSE [h EXCEPT !.got = got]]
  /\ UNCHANGED <<file, req, res, saved, issued, created, deleted, lastCreate>>

\* fs.writeFileSync, the open: it empties todos.json (or creates it empty)
\* and returns, or it throws (EACCES, EROFS) with the file untouched, which
\* saveTodoToFile answers with false and the handler will answer with 500.
HandlerOpen(p, opens) ==
  LET h == handlers[p] IN
  /\ h.pc = "loaded"
  /\ IF opens
       THEN /\ file' = TextFile("")
            /\ handlers' = [handlers EXCEPT ![p].pc = "opened"]
       ELSE /\ handlers' = [handlers EXCEPT ![p] =
                 [h EXCEPT !.pc = "answering", !.answer = SaveFailed,
                           !.outcome = "failed"]]
            /\ UNCHANGED file
  /\ UNCHANGED <<req, res, saved, issued, created, deleted, lastCreate>>

\* A write that loads the list again and applies only its own change to
\* it: a create appends its record to what todos.json holds now.
HandlerWrite_merge(p) ==
  LET h == handlers[p]
      now == getTodosFromFile(file).todos
      todos == IF h.req.route = "POST /todos"
                 THEN Push(now, h.todos[Len(h.todos)]) ELSE h.todos
  IN
  /\ h.pc = "opened"
  /\ file' = TextFile(Text(todos))
  /\ handlers' = [handlers EXCEPT ![p] =
       [h EXCEPT !.pc = "answering", !.outcome = "ok"]]
  /\ UNCHANGED <<req, res, saved, issued, created, deleted, lastCreate>>

\* fs.writeFileSync, the write when it returns the length of the text: the
\* whole text has landed at offset 0 of what todos.json held, writeFileSync
\* closes and returns and saveTodoToFile returns true (line 11).  The
\* handler has 201 or 200 to answer.
HandlerWrite(p) ==
  LET h == handlers[p]
      text == Text(h.todos)
  IN
  /\ h.pc = "opened"
  /\ file' = TextFile(WrittenOver(file.text, text, Len(text)))
  /\ handlers' = [handlers EXCEPT ![p] =
       [h EXCEPT !.pc = "answering", !.outcome = "ok"]]
  /\ UNCHANGED <<req, res, saved, issued, created, deleted, lastCreate>>

\* fs.writeFileSync, the write when it returns k, less than the length of
\* the text (the file size limit lies k characters in): those k characters
\* have landed and writeFileSync will write again for the rest.
HandlerWritePart(p, k) ==
  LET h == handlers[p] IN
  /\ h.pc = "opened"
  /\ 0 < k
  /\ k < Len(Text(h.todos))
  /\ file' = TextFile(WrittenOver(file.text, Text(h.todos), k))
  /\ handlers' = [handlers EXCEPT ![p].pc = "part"]
  /\ UNCHANGED <<req, res, saved, issued, created, deleted, lastCreate>>

\* fs.writeFileSync, the write when it throws (EFBIG, ENOSPC, EIO): the
\* first write, with nothing landed, or the write for the rest after a
\* part has landed, which the limit that cut the first one fails.  The
\* catch of lines 12-15 returns false and the handler has 500 to answer.
HandlerWriteThrows(p) ==
  LET h == handlers[p] IN
  /\ h.pc \in {"opened", "part"}
  /\ handlers' = [handlers EXCEPT ![p] =
       [h EXCEPT !.pc = "answering", !.answer = SaveFailed, !.outcome = "failed"]]
  /\ UNCHANGED <<file, req, res, saved, issued, created, deleted, lastCreate>>

\* res.status(..).json(..), lines 75, 78, 117, 122 and 125: the handler
\* sends what it has to answer.
HandlerAnswer(p) ==
  LET h == handlers[p] IN
  /\ h.pc = "answering"
  /\ req' = h.req
  /\ res' = h.answer
  /\ saved' = h.outcome
  /\ created' = IF h.answer.status = 201
                  THEN created \cup {h.answer.body.id} ELSE created
  /\ deleted' = IF h.answer.status = 200 /\ h.req.route = "DELETE /todos/:id"
                  THEN deleted \cup {h.req.id} ELSE deleted
  /\ lastCreate' = IF h.answer.status = 201
                     THEN [id |-> h.answer.body.id, body |-> h.req.body]
                     ELSE NoCreate
  /\ handlers' = [handlers EXCEPT ![p] = Idle]
  /\ UNCHANGED <<file, issued>>

\* The numbers of characters tried for a write that lands in part: for each
\* record of a list the [ or , before it alone, then with the first 15 and
\* the first 19 characters of the record, which end inside the id, and
\* everything up to its closing brace, without the , or ] that follows.
Cuts ==
  UNION {{(i - 1) * RecordWidth + 1, (i - 1) * RecordWidth + 16,
          (i - 1) * RecordWidth + 20, i * RecordWidth} : i \in 1..MaxCreates}

\* Two node processes started in the same directory, one handler each.
\* The requests are creates and deletes: one makes the list longer by a
\* record, the other shorter.
NextTwoProcesses ==
  \/ \E p \in Procs, body \in ConcurrentCreates : PostBegin(p, body)
  \/ \E p \in Procs, id \in Uuids : DeleteBegin(p, id)
  \/ \E p \in Procs : HandlerRead(p)
  \/ \E p \in Procs, opens \in BOOLEAN : HandlerOpen(p, opens)
  \/ \E p \in Procs : HandlerWrite(p)
  \/ \E p \in Procs, k \in Cuts : HandlerWritePart(p, k)
  \/ \E p \in Procs : HandlerWriteThrows(p)
  \/ \E p \in Procs : HandlerAnswer(p)

\* First start of the two processes: todos.json does not exist yet, or
\* holds [].
InitTwoProcesses ==
  /\ file \in {MissingFile, TextFile(Text(<<>>))}
  /\ InitRest

SpecTwoProcesses == InitTwoProcesses /\ [][NextTwoProcesses]_vars

\* ------------------------------------------------------------------------
\* Properties

\* The list todos.json holds: the empty list when there is no file or no
\* parseable content.
PersistedList(f) == IF f.kind = "array" THEN f.todos ELSE <<>>

IdsOf(list) == {Prop(list[i], "id") : i \in 1..Len(list)}

\* The last request was GET /todos/<id> for the id of the last 201, with no
\* POST, PUT or DELETE handled since that 201.
GetAfterCreate ==
  /\ req.route = "GET /todos/:id"
  /\ lastCreate # NoCreate
  /\ req.id = lastCreate.id

\* C1 as stated: a GET of the id a 201 returned, with no mutating request in
\* between, answers 200 with a record of that id whose title, description
\* and completed are identical to the values of the create body.
C1_RoundTripIdentical ==
  GetAfterCreate =>
    /\ res.status = 200
    /\ res.body.type = "todo"
    /\ Prop(res.body.todo, "id") = lastCreate.id
    /\ Prop(res.body.todo, "title") = lastCreate.body.title
    /\ Prop(res.body.todo, "description") = lastCreate.body.description
    /\ Prop(res.body.todo, "completed") = lastCreate.body.completed

\* C1 amended: a GET of the id a 201 returned, with no mutating request in
\* between, answers 200 with a record of that id whose title and description
\* are those of the create body (absent when omitted) and whose completed is
\* the supplied value when that is truthy and false when it was omitted or
\* falsy, each value as JSON.stringify writes it (null for a number that is
\* not finite).
C1_RoundTrip ==
  GetAfterCreate =>
    /\ res.status = 200
    /\ res.body.type = "todo"
    /\ Prop(res.body.todo, "id") = lastCreate.id
    /\ Prop(res.body.todo, "title") = Stringify(lastCreate.body.title)
    /\ Prop(res.body.todo, "description") = Stringify(lastCreate.body.description)
    /\ Prop(res.body.todo, "completed") = Stringify(Or(lastCreate.body.completed, "false"))

\* A create that omitted completed was fetched and shows completed false
\* beside the title and description supplied.
C1_Witness ==
  /\ GetAfterCreate
  /\ lastCreate.body.completed = Undefined
  /\ lastCreate.body.title = "'t1'"
  /\ res.status = 200
  /\ Prop(res.body.todo, "completed") = "false"
  /\ Len(PersistedList(file)) = 2

\* C2: once DELETE /todos/X has answered 200, a GET /todos/X answers 404
\* "Todo not found" whatever was created, updated or deleted since; no
\* create answers with a deleted id, and no deleted id is in the list.
C2_DeleteThenGet ==
  /\ (req.route = "GET /todos/:id" /\ req.id \in deleted) => res = NotFound
  /\ (req.route = "POST /todos" /\ res.status = 201) => res.body.id \notin deleted
  /\ deleted \cap IdsOf(PersistedList(file)) = {}

\* A deleted id was fetched after a later create had been stored.
C2_Witness ==
  /\ req.route = "GET /todos/:id"
  /\ req.id \in deleted
  /\ res.status = 404
  /\ created \ deleted # {}
  /\ PersistedList(file) # <<>>

\* C3 as stated: after PUT /todos/<id> answers 200, the response body and
\* the stored record have that id, the title and description of the request
\* body and completed equal to the body's completed, or false when that is
\* omitted or falsy; a property the body omits is absent afterwards.
C3_UpdateReplaces ==
  (req.route = "PUT /todos/:id" /\ res.status = 200) =>
    LET list == PersistedList(file)
        i == Find(list, req.id)
        Replaced(o) ==
          /\ DOMAIN o \subseteq {"id", "title", "description", "completed"}
          /\ Prop(o, "id") = req.id
          /\ Prop(o, "title") = req.body.title
          /\ Prop(o, "description") = req.body.description
          /\ Prop(o, "completed") = Or(req.body.completed, "false")
    IN /\ res.body.type = "todo"
       /\ Replaced(res.body.todo)
       /\ i # 0
       /\ Replaced(list[i])

\* C4: started over a missing or empty todos.json, after any requests, those
\* whose save fails included, the ids of the records in the persisted list
\* are pairwise distinct, and the id a 201 returns is none an earlier 201
\* returned.
C4_UniqueIds ==
  /\ [](Cardinality(IdsOf(PersistedList(file))) = Len(PersistedList(file)))
  /\ [][(req'.route = "POST /todos" /\ res'.status = 201)
          => res'.body.id \notin created]_vars

\* Two creates have answered 201 and both records are stored, after which
\* the save of an update failed.
C4_Witness ==
  /\ Cardinality(created) = 2
  /\ Len(PersistedList(file)) = 2
  /\ req.route = "PUT /todos/:id"
  /\ saved = "failed"

\* C5 as stated: a restart leaves what GET /todos answers unchanged,
\* records and order, and after it every record created with a 201 and not
\* deleted since is in that answer.
C5_Restart ==
  [][req'.route = "restart" =>
       /\ GetTodosResponse(file') = GetTodosResponse(file)
       /\ (created' \ deleted') \subseteq IdsOf(GetTodosResponse(file').body.todos)]_vars

\* C6 as stated: when the save of a create, update or delete fails, the answer is 500
\* "Failed to save todo" and todos.json is what it was before the request;
\* a create, update or delete that answers 201 or 200 has saved.
C6_SaveFailure ==
  [][/\ saved' = "failed" => (res' = SaveFailed /\ file' = file)
     /\ (req'.route \in {"POST /todos", "PUT /todos/:id", "DELETE /todos/:id"}
          /\ res'.status \in {200, 201}) => saved' = "ok"]_vars

\* C7 as stated: no request ends with an uncaught exception, and while
\* todos.json is missing, unparseable or holds no record list every handler
\* answers as over the empty list: GET /todos 200 with [], GET, PUT and
\* DELETE by id 404, and POST 201 unless its own save fails.
C7_LoadFailSoft ==
  /\ res # Uncaught
  /\ file.kind # "array" =>
       /\ req.route = "GET /todos" => res = Response(200, ArrayBody(<<>>))
       /\ req.route \in {"GET /todos/:id", "PUT /todos/:id", "DELETE /todos/:id"}
            => res = NotFound
       /\ req.route = "POST /todos" => res = SaveFailed

\* C8: GET /todos/:id answers 200 with the record of the persisted list
\* whose id is the path id when the list has one, and 404 "Todo not found"
\* when it has none; GET /todos answers 200 with the whole persisted list.
C8_Lookup ==
  LET list == PersistedList(file) IN
  /\ req.route = "GET /todos/:id" =>
       IF req.id \in IdsOf(list)
         THEN /\ res.status = 200
              /\ res.body.type = "todo"
              /\ Prop(res.body.todo, "id") = req.id
              /\ \E i \in 1..Len(list) : list[i] = res.body.todo
         ELSE res = NotFound
  /\ req.route = "GET /todos" => res = Response(200, [type |-> "array", todos |-> list])

\* The first of two stored records was fetched by its id.
C8_Witness ==
  /\ req.route = "GET /todos/:id"
  /\ res.status = 200
  /\ Len(PersistedList(file)) = 2
  /\ PersistedList(file)[1] = res.body.todo

\* C9: a PUT or DELETE for an id no record of the persisted list has
\* answers 404 "Todo not found", saves nothing and leaves todos.json as it
\* was.
C9_NotFoundOnMutation ==
  [][(/\ req'.route \in {"PUT /todos/:id", "DELETE /todos/:id"}
      /\ req'.id \notin IdsOf(PersistedList(file)))
       => (res' = NotFound /\ saved' = "none" /\ file' = file)]_vars

\* A DELETE of an id that had been deleted before was answered 404 while
\* another record is stored.
C9_Witness ==
  /\ req.route = "DELETE /todos/:id"
  /\ req.id \in deleted
  /\ res = NotFound
  /\ saved = "none"
  /\ PersistedList(file) # <<>>

\* C10 as stated: every record of the persisted list has completed true or
\* false, and the record a create or update has just stored has completed
\* false when the supplied value was omitted or falsy.
C10_CompletedBoolean ==
  LET list == PersistedList(file) IN
  /\ \A i \in 1..Len(list) : Prop(list[i], "completed") \in {"true", "false"}
  /\ (/\ req.route \in {"POST /todos", "PUT /todos/:id"}
      /\ res.status \in {200, 201}
      /\ req.body.completed \in Falsy)
       => LET id == IF req.route = "POST /todos" THEN res.body.id ELSE req.id
          IN Prop(list[Find(list, id)], "completed") = "false"

\* C11 as stated: the id a 201 returns is a token uuidV4 had not returned before,
\* whatever id the body carries; an update changes the id of no record; and
\* the set of ids of the persisted list changes only by a create answered
\* 201, which adds that one id, and by a delete answered 200, which removes
\* the one id deleted.
C11_IdImmutable ==
  [][LET old == PersistedList(file)
         new == PersistedList(file')
     IN IF req'.route = "POST /todos" /\ res'.status = 201
          THEN /\ res'.body.id \notin issued \cup IdsOf(old)
               /\ IdsOf(new) = IdsOf(old) \cup {res'.body.id}
        ELSE IF req'.route = "DELETE /todos/:id" /\ res'.status = 200
          THEN /\ req'.id \in IdsOf(old)
               /\ IdsOf(new) = IdsOf(old) \ {req'.id}
        ELSE /\ IdsOf(new) = IdsOf(old)
             /\ req'.route = "PUT /todos/:id" =>
                  /\ Len(new) = Len(old)
                  /\ \A j \in 1..Len(old) : Prop(new[j], "id") = Prop(old[j], "id")]_vars

\* C15: a POST /todos answered 201 makes the persisted list the previous
\* list followed by one new record, the one of the id answered: the records
\* before it and their order are unchanged and the list is one longer.
C15_CreateAppends ==
  [][(req'.route = "POST /todos" /\ res'.status = 201) =>
       LET old == PersistedList(file)
           new == PersistedList(file')
       IN /\ Len(new) = Len(old) + 1
          /\ SubSeq(new, 1, Len(old)) = old
          /\ new[Len(new)] = JsonObject([id |-> res'.body.id,
                                         title |-> req'.body.title,
                                         description |-> req'.body.description,
                                         completed |-> Or(req'.body.completed, "false")])]_vars

\* A second create was answered 201 and its record is the last of two.
C15_Witness ==
  /\ req.route = "POST /todos"
  /\ res.status = 201
  /\ Len(PersistedList(file)) = 2
  /\ PersistedList(file)[2].id = res.body.id

\* C16: a DELETE /todos/<id> answered 200 makes the persisted list the
\* previous list without the record of that id: the other records and their
\* order are unchanged and the list is one shorter.
C16_DeleteRemovesOne ==
  [][(req'.route = "DELETE /todos/:id" /\ res'.status = 200) =>
       LET old == PersistedList(file)
           new == PersistedList(file')
       IN /\ Len(new) = Len(old) - 1
          /\ req'.id \notin IdsOf(new)
          /\ \E i \in 1..Len(old) :
               /\ Prop(old[i], "id") = req'.id
               /\ new = SubSeq(old, 1, i - 1) \o SubSeq(old, i + 1, Len(old))]_vars

\* The first of two records was deleted and the second is what is left.
C16_Witness ==
  /\ req.route = "DELETE /todos/:id"
  /\ res.status = 200
  /\ req.id = UuidNames[1]
  /\ IdsOf(PersistedList(file)) = {UuidNames[2]}

\* C17: a PUT /todos/<id> answered 200 leaves the length of the persisted
\* list, the position of the record of that id and every record of another
\* id unchanged.
C17_UpdateTouchesTarget ==
  [][(req'.route = "PUT /todos/:id" /\ res'.status = 200) =>
       LET old == PersistedList(file)
           new == PersistedList(file')
       IN /\ Len(new) = Len(old)
          /\ \A j \in 1..Len(old) :
               IF Prop(old[j], "id") = req'.id
                 THEN Prop(new[j], "id") = req'.id
                 ELSE new[j] = old[j]]_vars

\* The first of two records was updated and is still the first.
C17_Witness ==
  /\ req.route = "PUT /todos/:id"
  /\ res.status = 200
  /\ Len(PersistedList(file)) = 2
  /\ PersistedList(file)[1].id = req.id
  /\ PersistedList(file)[1] # PersistedList(file)[2]

\* C18: GET /todos and GET /todos/:id save nothing and leave todos.json as
\* it was, a missing or unparseable todos.json included.
C18_ReadsNeverWrite ==
  [][(req'.route \in {"GET /todos", "GET /todos/:id"})
       => (saved' = "none" /\ file' = file)]_vars

\* GET /todos was answered over a todos.json that does not exist, which
\* still does not exist.
C18_Witness ==
  /\ req.route = "GET /todos"
  /\ res = Response(200, ArrayBody(<<>>))
  /\ file = MissingFile

\* The handler p saves in this step.
Saves(p) == handlers[p].pc # "idle" /\ handlers'[p].pc = "idle"

\* C13 as stated: within one process at most one handler is between its load and its
\* save, and a handler saves over the very content of todos.json it loaded,
\* so each request acts on the list as the request before it left it and
\* the requests take effect one after another; every id a 201 returned that
\* no DELETE answered 200 has removed is in the persisted list.
C13_RunToCompletion ==
  /\ [](Cardinality({p \in Procs : handlers[p].pc # "idle"}) <= 1)
  /\ []((created \ deleted) \subseteq IdsOf(PersistedList(file)))
  /\ [][\A p \in Procs : Saves(p) => handlers[p].seen = file]_vars

\* The write of handler p returns in this step with its whole text landed.
Written(p) ==
  /\ handlers[p].pc = "opened"
  /\ handlers'[p].pc = "answering"
  /\ handlers'[p].outcome = "ok"

\* C14: a save that returns writes the list its handler computed from what
\* it had loaded, so every record stored between that load and this save
\* is overwritten: todos.json then holds that list, and always so when what
\* it held was no longer than the text written, or text JSON.parse rejects,
\* and the ids stored afterwards are among those the handler loaded and the
\* one it created.  With two handlers on one todos.json this loses a create
\* that was answered 201.
C14_LastWriterWins ==
  [][\A p \in Procs : Written(p) =>
       LET h == handlers[p] IN
       /\ \/ file'.kind = "array" /\ file'.todos = JsonArray(h.todos)
          \/ file'.kind = "unparseable"
       /\ Len(file.text) <= Len(Text(h.todos)) => file'.kind = "array"
       /\ IdsOf(PersistedList(file')) \subseteq
            IdsOf(PersistedList(h.seen))
              \cup (IF h.req.route = "POST /todos" THEN {h.answer.body.id} ELSE {})]_vars

\* Both creates were answered 201 and no DELETE was answered 200, yet the
\* persisted list holds only the record of the create that saved last.
C14_Witness ==
  /\ created = {UuidNames[1], UuidNames[2]}
  /\ deleted = {}
  /\ \A p \in Procs : handlers[p].pc = "idle"
  /\ req.route = "POST /todos"
  /\ res.status = 201
  /\ IdsOf(PersistedList(file)) = {res.body.id}

====
